---- MODULE Spec2Model ----
(***************************************************************************)
(* fusedis: the FUSE adapter of src/src/fuse.rs (KVFS) as a state machine. *)
(*                                                                         *)
(* State: the mount's Config, the two static tables built by               *)
(* init_static_dirs, the process-wide INO_CACHE (an LruCache behind a      *)
(* std::sync::RwLock, which is poisoned when a thread panics while holding *)
(* the write guard), the Redis key space the pool talks to, and the        *)
(* callbacks in flight (their arguments, position, locals and the replies  *)
(* they have sent).                                                        *)
(*                                                                         *)
(* A callback runs in steps that are cut at its blocking points (taking    *)
(* the cache write lock, taking a pool connection, a Redis round trip).    *)
(* Everything between two blocking points is one step.                     *)
(*                                                                         *)
(* Callbacks are dispatched to worker threads: a panic ends the callback    *)
(* it happens in (the callback itself sends nothing more, and a write      *)
(* guard it holds is dropped poisoned), while later callbacks still run.   *)
(* The pool of KVFS is Some: the mount talks to a standalone Redis.        *)
(*                                                                         *)
(* Spec runs one callback at a time over the full range of requests;       *)
(* SpecConc runs two callbacks at a time over the requests that meet at    *)
(* the cache lock, under fair scheduling; SpecLru runs one callback at a   *)
(* time against a cache of SmallCapacity entries, so that the cache fills. *)
(*                                                                         *)
(* u64 values do not fit TLC's 32-bit integers: an inode or a hash is a    *)
(* triple <<hi, mid, lo>> of base-10^7 limbs, hi*10^14 + mid*10^7 + lo.    *)
(***************************************************************************)
EXTENDS Integers, Sequences, FiniteSets, TLC

(***************************************************************************)
(* Bounds of the model.                                                    *)
(***************************************************************************)
\* read offsets tried below the help files' lengths: -1 .. MaxReadOffset
MaxReadOffset == 3
\* readdir offsets tried: -1 .. MaxDirOffset
MaxDirOffset == 2
\* reply buffers that hold 1 .. MaxSmallBuf directory entries, and one that
\* holds every listing (BigBuf)
MaxSmallBuf == 1
\* the capacity of the cache in the runs that fill it (SpecLru)
SmallCapacity == 2
\* the connections of the pool
PoolSize == 1

(***************************************************************************)
(* u64 arithmetic on limbs.                                                *)
(***************************************************************************)
LimbBase == 10^7

U(n) == <<0, 0, n>>

u64_lt(a, b) ==
    \/ a[1] < b[1]
    \/ a[1] = b[1] /\ a[2] < b[2]
    \/ a[1] = b[1] /\ a[2] = b[2] /\ a[3] < b[3]

u64_le(a, b) == a = b \/ u64_lt(a, b)

\* a - b, for a >= b
u64_sub(a, b) ==
    LET lo  == a[3] - b[3]
        b1  == IF lo < 0 THEN 1 ELSE 0
        mid == a[2] - b[2] - b1
        b2  == IF mid < 0 THEN 1 ELSE 0
    IN  <<a[1] - b[1] - b2, mid + b2 * LimbBase, lo + b1 * LimbBase>>

\* a + b (no carry out of the top limb for the values used: a + b < 2^64)
u64_add(a, b) ==
    LET lo  == a[3] + b[3]
        c1  == lo \div LimbBase
        mid == a[2] + b[2] + c1
        c2  == mid \div LimbBase
    IN  <<a[1] + b[1] + c2, mid % LimbBase, lo % LimbBase>>

\* a % m, for a modulus that is a multiple of 10^14 (m = <<q, 0, 0>>)
u64_rem(a, m) == <<a[1] % m[1], a[2], a[3]>>

(***************************************************************************)
(* Constants of fuse.rs.                                                   *)
(***************************************************************************)
RAW_START == U(2)
RAW_END == U(8191)
LOCK_START == U(8192)
LOCK_END == <<1, 0, 0>>
KV_START == <<4, 0, 0>>
KV_END == <<5, 0, 0>>

RAW_HELP == "Send raw commands to Redis.\n\nTODO fill this in with how to use /raw\n"
LOCK_HELP == "Atomic locks via files.\n\nTODO fill this in with how to use /lock\n"
KV_HELP == "Key/Value store via files.\n\nTODO fill this in with how to use /kv\n"

\* LruCache::new(1_000_000)
INO_CACHE_CAPACITY == 1000000

ENOENT == "ENOENT"
EAGAIN == "EAGAIN"

Directory == "Directory"
RegularFile == "RegularFile"

\* Option<T>
None == [some |-> FALSE, v |-> ""]
Some(x) == [some |-> TRUE, v |-> x]

(***************************************************************************)
(* The keys of the model and their hashes.                                 *)
(***************************************************************************)
\* The Redis keys of the model: the empty key and two keys "a" and "b" that
\* stand for two distinct byte strings whose SeaHash values are congruent
\* modulo KV_END - KV_START (such pairs exist: the hash maps unboundedly
\* many strings to 64 bits and the inode keeps less than 47 of them).
Keys == {"", "a", "b"}

\* The keys of the runs against a small cache: three keys with three
\* different inodes.
LruKeys == {"", "a", "c"}

\* A name the kernel passes that is not valid UTF-8.
NonUtf8Name == "\\xff"

\* The value a key of the model holds when the server has it: values of
\* different lengths, the empty value included.
ValueOf(k) == IF k = "b" THEN "" ELSE "x"

\* seahash::hash(name.as_bytes()): a 64-bit value per key.
seahash_hash(name) ==
    CASE name = ""  -> <<71005, 2210773, 9185171>>
      [] name = "a" -> <<3, 1414213, 5623730>>
      [] name = "b" -> <<120618, 1414213, 5623730>>
      [] name = "c" -> <<9, 1732050, 8075688>>
      [] OTHER      -> <<184467, 4407370, 9551615>>

\* faulty variant: the modulus is KV_END instead of the size of the range
assign_mod_end(name) == u64_add(u64_rem(seahash_hash(name), KV_END), KV_START)

\* seahash::hash(name_str.as_bytes()) % (KV_END - KV_START) + KV_START
assign(name) == u64_add(u64_rem(seahash_hash(name), u64_sub(KV_END, KV_START)), KV_START)

(***************************************************************************)
(* FileAttr and the static tables.                                         *)
(***************************************************************************)
\* KVFS::get_attr: the fields that vary between nodes (blocks, nlink, rdev,
\* flags, blksize are literals, perm/uid/gid the mount's, the times "now").
get_attr(path, kind, ino, size) == [ino |-> ino, size |-> size, kind |-> kind]

NoAttr == [ino |-> U(0), size |-> 0, kind |-> "none"]

\* DirEntry = (ino, type, attr, name, content)
DirEntry(ino, kind, attr, name, content) ==
    [ino |-> ino, kind |-> kind, attr |-> attr, name |-> name, content |-> content]

\* faulty variant: /raw and /raw:help are set up whatever disable_raw says
root_entries_always_raw(disable_raw) ==
    <<DirEntry(U(1), Directory, get_attr(".", Directory, U(1), 0), ".", None),
      DirEntry(U(2), RegularFile, get_attr("/raw", RegularFile, U(2), 0), "raw", None),
      DirEntry(U(3), RegularFile,
               get_attr("/raw:help", RegularFile, U(3), Len(RAW_HELP)),
               "raw:help", Some(RAW_HELP)),
      DirEntry(U(2048), Directory, get_attr("/lock", Directory, U(2048), 0), "lock", None),
      DirEntry(U(2049), RegularFile,
               get_attr("/lock:help", RegularFile, U(2049), Len(LOCK_HELP)),
               "lock:help", Some(LOCK_HELP)),
      DirEntry(U(4096), Directory, get_attr("/kv", Directory, U(4096), 0), "kv", None),
      DirEntry(U(4097), RegularFile,
               get_attr("/kv:help", RegularFile, U(4097), Len(KV_HELP)),
               "kv:help", Some(KV_HELP))>>

\* root_entries of init_static_dirs, in push order
root_entries(disable_raw) ==
    (IF ~disable_raw
       THEN <<DirEntry(U(1), Directory, get_attr(".", Directory, U(1), 0), ".", None),
              DirEntry(U(2), RegularFile, get_attr("/raw", RegularFile, U(2), 0), "raw", None),
              DirEntry(U(3), RegularFile,
                       get_attr("/raw:help", RegularFile, U(3), Len(RAW_HELP)),
                       "raw:help", Some(RAW_HELP))>>
       ELSE <<>>)
    \o
    <<DirEntry(U(2048), Directory, get_attr("/lock", Directory, U(2048), 0), "lock", None),
      DirEntry(U(2049), RegularFile,
               get_attr("/lock:help", RegularFile, U(2049), Len(LOCK_HELP)),
               "lock:help", Some(LOCK_HELP)),
      DirEntry(U(4096), Directory, get_attr("/kv", Directory, U(4096), 0), "kv", None),
      DirEntry(U(4097), RegularFile,
               get_attr("/kv:help", RegularFile, U(4097), Len(KV_HELP)),
               "kv:help", Some(KV_HELP))>>

Reverse(s) == [i \in 1..Len(s) |-> s[Len(s) + 1 - i]]

\* The iteration orders of the root HashMap<String, DirEntry> the model
\* tries: std's HashMap iterates in an order of its own, fixed while the map
\* is not modified.
HashMapOrders == {"push", "reverse"}

\* direntries_by_parent_ino after init_static_dirs: parent 1 |-> the root
\* entries, as the sequence its HashMap iterates them in (names are unique)
by_parent_ino_of(disable_raw, order) ==
    [p \in {U(1)} |->
        IF order = "push" THEN root_entries(disable_raw)
                          ELSE Reverse(root_entries(disable_raw))]

\* direntries_by_ino after init_static_dirs
by_ino_of(disable_raw) ==
    LET es == root_entries(disable_raw)
    IN  [i \in {es[j].ino : j \in 1..Len(es)} |->
            LET j == CHOOSE k \in 1..Len(es) :
                        /\ es[k].ino = i
                        /\ \A l \in 1..Len(es) : es[l].ino = i => l <= k
            IN  es[j]]

\* HashMap<String, DirEntry>::get(name) on a root map
entries_get(entries, name) ==
    IF \E j \in 1..Len(entries) : entries[j].name = name
      THEN Some(CHOOSE j \in 1..Len(entries) : entries[j].name = name)
      ELSE [some |-> FALSE, v |-> 0]

(***************************************************************************)
(* The state.                                                              *)
(***************************************************************************)
VARIABLES
    config,                    \* KVFS.config: disable_raw, max_results; and the
                               \* capacity INO_CACHE is created with
    direntries_by_ino,         \* KVFS.direntries_by_ino
    direntries_by_parent_ino,  \* KVFS.direntries_by_parent_ino
    ino_cache,                 \* INO_CACHE: the LruCache
    cache_writer,              \* INO_CACHE: the slot holding the write guard, or 0
    cache_poisoned,            \* INO_CACHE: the RwLock's poison flag
    redis,                     \* the server's key space: key -> Option<value>
    th                         \* the callbacks in flight, one per slot

vars ==
    <<config, direntries_by_ino, direntries_by_parent_ino, ino_cache,
      cache_writer, cache_poisoned, redis, th>>

(***************************************************************************)
(* LruCache<u64, String>: a sequence of (ino, name), most recent first.    *)
(***************************************************************************)
\* LruCache::cap: the capacity the cache was created with
cap == config.ino_cache_capacity

LruIndex(c, ino) ==
    IF \E j \in 1..Len(c) : c[j].ino = ino
      THEN CHOOSE j \in 1..Len(c) : c[j].ino = ino
      ELSE 0

Without(c, j) == [i \in 1..(Len(c) - 1) |-> IF i < j THEN c[i] ELSE c[i + 1]]

\* faulty variant: a full cache drops its most recently used entry
LruPut_evict_newest(c, ino, name) ==
    LET j == LruIndex(c, ino)
        e == [ino |-> ino, name |-> name]
    IN  IF j > 0 THEN <<e>> \o Without(c, j)
        ELSE IF Len(c) >= cap THEN <<e>> \o Without(c, 1)
        ELSE <<e>> \o c

\* faulty variant: put keeps the value of a key that is already cached
LruPut_keepold(c, ino, name) ==
    LET j == LruIndex(c, ino)
        e == [ino |-> ino, name |-> name]
    IN  IF j > 0 THEN <<c[j]>> \o Without(c, j)
        ELSE IF Len(c) >= cap THEN <<e>> \o Without(c, Len(c))
        ELSE <<e>> \o c

\* LruCache::put: replace and promote, or insert, evicting the least
\* recently used entry of a full cache
LruPut(c, ino, name) ==
    LET j == LruIndex(c, ino)
        e == [ino |-> ino, name |-> name]
    IN  IF j > 0 THEN <<e>> \o Without(c, j)
        ELSE IF Len(c) >= cap THEN <<e>> \o Without(c, Len(c))
        ELSE <<e>> \o c

\* LruCache::get: the value, if any; a hit promotes the entry
LruGetValue(c, ino) ==
    LET j == LruIndex(c, ino) IN IF j > 0 THEN Some(c[j].name) ELSE None

LruGetCache(c, ino) ==
    LET j == LruIndex(c, ino) IN IF j > 0 THEN <<c[j]>> \o Without(c, j) ELSE c

Min(a, b) == IF a < b THEN a ELSE b

(***************************************************************************)
(* Replies.  A callback's reply object is consumed by the call that        *)
(* answers it; replies is the sequence of answers a callback has sent.     *)
(***************************************************************************)
NoReply ==
    [kind |-> "none", errno |-> "", attr |-> NoAttr, generation |-> 0,
     data |-> "", entries |-> <<>>]

\* reply.error(errno)
ReplyError(errno) == [NoReply EXCEPT !.kind = "error", !.errno = errno]
\* reply.entry(&TTL, &attr, generation)
ReplyEntry(attr, generation) ==
    [NoReply EXCEPT !.kind = "entry", !.attr = attr, !.generation = generation]
\* reply.attr(&TTL, &attr)
ReplyAttr(attr) == [NoReply EXCEPT !.kind = "attr", !.attr = attr]
\* reply.data(bytes)
ReplyData(bytes) == [NoReply EXCEPT !.kind = "data", !.data = bytes]
\* reply.add(..)* ; reply.ok()
ReplyDirectory(entries) == [NoReply EXCEPT !.kind = "directory", !.entries = entries]

(***************************************************************************)
(* Inputs the model tries.                                                 *)
(***************************************************************************)
Slots == {1}

MaxResultsValues == {-2, -1, 0, 1}

RootNames == {"raw", "raw:help", "lock", "lock:help", "kv", "kv:help"}

\* (parent, name) pairs
LookupArgs ==
    ({U(1)} \X (RootNames \cup {".", "a", NonUtf8Name}))
    \cup ({U(4096)} \X (Keys \cup {"kv", NonUtf8Name}))
    \cup ({U(2048)} \X {"lock:help", "a"})

GetattrInos ==
    {U(0), U(1), U(2), U(3), U(5), U(2048), U(2049), U(4096), U(4097), U(8192),
     assign(""), assign("a"), KV_END, u64_add(KV_END, U(1))}

ReadInos == {U(3), U(2049), U(4096), U(4097), U(8192), assign(""), assign("a")}
ReadOffsets == (-1 .. MaxReadOffset) \cup {Len(LOCK_HELP), Len(KV_HELP)}
ReadSizes == {1, 4096}

ReaddirInos == {U(1), U(2), U(4096)}
ReaddirOffsets == -1 .. MaxDirOffset
\* a reply buffer that holds every listing of the model
BigBuf == 16
BufCaps == (1 .. MaxSmallBuf) \cup {BigBuf}

(***************************************************************************)
(* State.                                                                  *)
(***************************************************************************)
\* A slot with no callback in it.
Idle ==
    [pc |-> "idle", op |-> "none", parent |-> U(0), name |-> "", ino |-> U(0),
     offset |-> 0, size |-> 0, bufcap |-> 0,
     conn |-> FALSE, driver |-> "unused", name_str |-> "", value |-> None,
     keys |-> <<>>, replies |-> <<>>,
     \* history: the name of the /kv lookup that has just returned EAGAIN on
     \* this slot after a failed driver call (in an idle slot), and whether
     \* the callback in the slot is the lookup of that name again
     failed |-> None, retry |-> FALSE]

\* KVFS { config, pool, .. } followed by init_static_dirs(); INO_CACHE is
\* created empty on first use.  The pool is Some (standalone mode).
Init ==
    /\ config \in [disable_raw : BOOLEAN, max_results : MaxResultsValues,
                  ino_cache_capacity : {INO_CACHE_CAPACITY}]
    /\ direntries_by_ino = by_ino_of(config.disable_raw)
    /\ \E order \in HashMapOrders :
          direntries_by_parent_ino = by_parent_ino_of(config.disable_raw, order)
    /\ ino_cache = <<>>
    /\ cache_writer = 0
    /\ cache_poisoned = FALSE
    /\ redis = [k \in Keys |-> None]
    /\ th = [s \in Slots |-> Idle]

(***************************************************************************)
(* Helpers of the callbacks.                                               *)
(***************************************************************************)
\* name.to_os_string().into_string()
into_string(name) == IF name = NonUtf8Name THEN None ELSE Some(name)

\* the match arms of getattr and read
InRawRange(ino) == u64_le(ino, RAW_END)
InKvRange(ino) == u64_le(KV_START, ino) /\ u64_le(ino, KV_END)

\* &bytes[offset as usize..] panics when the start is past the end; a
\* negative i64 offset becomes a usize above 2^63
SliceFromPanics(bytes, offset) == offset < 0 \/ offset > Len(bytes)
SliceFrom(bytes, offset) == SubSeq(bytes, offset + 1, Len(bytes))

\* the callback of slot s ends: its reply (if any) is sent, its pool
\* connection is returned
Finish(slot, pc, replies) ==
    [slot EXCEPT !.pc = pc, !.conn = FALSE, !.replies = replies]

Replied(slot, reply) == Finish(slot, "done", Append(slot.replies, reply))

\* the thread unwinds: nothing is sent on the reply channel by the callback
Panicked(slot) == Finish(slot, "panicked", slot.replies)

\* faulty variant: the entry carries its own index, not the next one
Emitted_own_index(entries, offset, bufcap) ==
    LET skip == IF offset < 0 THEN Len(entries) ELSE Min(offset, Len(entries))
        n    == Min(bufcap, Len(entries) - skip)
    IN  [j \in 1..n |->
            [ino |-> entries[skip + j][1], offset |-> skip + j - 1,
             kind |-> entries[skip + j][2], name |-> entries[skip + j][3]]]

\* for (i, entry) in entries.into_iter().enumerate().skip(offset as usize):
\* reply.add(ino, i + 1, kind, name) until it reports a full buffer (the
\* entry that did not fit is not added)
Emitted(entries, offset, bufcap) ==
    LET skip == IF offset < 0 THEN Len(entries) ELSE Min(offset, Len(entries))
        n    == Min(bufcap, Len(entries) - skip)
    IN  [j \in 1..n |->
            [ino |-> entries[skip + j][1], offset |-> skip + j,
             kind |-> entries[skip + j][2], name |-> entries[skip + j][3]]]

\* faulty variant: the comparison lets one more key through
KvTaken_inclusive(keys, max_results) ==
    IF max_results = -1 THEN keys
    ELSE IF max_results >= 0 THEN SubSeq(keys, 1, Min(max_results + 1, Len(keys)))
    ELSE <<>>

\* the keys get_kv_direntries takes from the SCAN iterator:
\* max_results == -1 || max_results > i, else break
KvTaken(keys, max_results) ==
    IF max_results = -1 THEN keys
    ELSE IF max_results > 0 THEN SubSeq(keys, 1, Min(max_results, Len(keys)))
    ELSE <<>>

\* ino_cache.put(ino, key) for each key taken, in order
RECURSIVE PutAll(_, _)
PutAll(c, keys) ==
    IF keys = <<>> THEN c
    ELSE PutAll(LruPut(c, assign(Head(keys)), Head(keys)), Tail(keys))

\* the orders in which SCAN returns a set of keys that the model tries:
\* the rotations of one order, so that every key can come first
KeyOrder == <<"", "a", "b", "c">>

RECURSIVE Restrict(_, _)
Restrict(q, S) ==
    IF q = <<>> THEN <<>>
    ELSE IF Head(q) \in S THEN <<Head(q)>> \o Restrict(Tail(q), S)
    ELSE Restrict(Tail(q), S)

Rotate(q, r) == SubSeq(q, r + 1, Len(q)) \o SubSeq(q, 1, r)

ScanOrders(S) == {Restrict(Rotate(KeyOrder, r), S) : r \in 0..(Len(KeyOrder) - 1)}

PresentKeys == {k \in DOMAIN redis : redis[k].some}

\* GET name: the value of a key the server holds, nil for any other name
RedisGet(name) == IF name \in DOMAIN redis THEN redis[name] ELSE None

\* self.pool: connections are checked out by get() and returned when the
\* callback drops them; get() hands one out while the pool has one, and
\* returns Err when it cannot (no connection within the pool's timeout, or
\* the server cannot be reached)
PoolAvailable == Cardinality({s \in DOMAIN th : th[s].conn}) < PoolSize

\* faulty variant: the Err arm answers with another errno
get_conn_eagain_eio(slot) == Replied([slot EXCEPT !.driver = "error"], ReplyError("EIO"))

\* get_conn_eagain!, the Err arm: log, reply.error(EAGAIN), return
get_conn_eagain(slot) == Replied([slot EXCEPT !.driver = "error"], ReplyError(EAGAIN))

(***************************************************************************)
(* lookup (fuse.rs 81-149)                                                 *)
(***************************************************************************)
LookupEntryReply(name_str, value) ==
    ReplyEntry(get_attr("/kv/" \o name_str, RegularFile, assign(name_str), Len(value) + 1),
               Len(value) + 1)

lookup(s, parent, name) ==
    /\ th[s].pc = "idle"
    /\ LET call == [Idle EXCEPT !.op = "lookup", !.parent = parent, !.name = name,
                                !.retry = (parent = U(4096) /\ th[s].failed = Some(name))]
           name_str == into_string(name)
       IN
        \/ /\ ~name_str.some
           /\ th' = [th EXCEPT ![s] = Replied(call, ReplyError(ENOENT))]
        \/ /\ name_str.some
           /\ parent = U(1)
           /\ LET entries == direntries_by_parent_ino[parent]
                  hit == entries_get(entries, name_str.v)
              IN  th' = [th EXCEPT ![s] =
                          IF hit.some
                            THEN Replied(call, ReplyEntry(entries[hit.v].attr, 0))
                            ELSE Replied(call, ReplyError(ENOENT))]
        \/ /\ name_str.some
           /\ parent = U(4096)
           \* get_conn_eagain!: the pool hands out no connection
           /\ th' = [th EXCEPT ![s] = get_conn_eagain(call)]
        \/ /\ name_str.some
           /\ parent = U(4096)
           /\ PoolAvailable
           /\ th' = [th EXCEPT ![s] =
                       [call EXCEPT !.pc = "lookup_get", !.conn = TRUE,
                                    !.name_str = name_str.v]]
        \/ /\ name_str.some
           /\ parent # U(1) /\ parent # U(4096)
           /\ th' = [th EXCEPT ![s] = Replied(call, ReplyError(ENOENT))]
    /\ UNCHANGED <<config, direntries_by_ino, direntries_by_parent_ino, ino_cache,
                   cache_writer, cache_poisoned, redis>>

\* redis::cmd("GET").arg(&name_str).query(&mut *conn)
lookup_query(s) ==
    /\ th[s].pc = "lookup_get"
    /\ \/ th' = [th EXCEPT ![s] =
                   Replied([th[s] EXCEPT !.driver = "error"], ReplyError(EAGAIN))]
       \/ /\ ~RedisGet(th[s].name_str).some
          /\ th' = [th EXCEPT ![s] =
                      Replied([th[s] EXCEPT !.driver = "ok"], ReplyError(ENOENT))]
       \/ /\ RedisGet(th[s].name_str).some
          /\ th' = [th EXCEPT ![s] =
                      [th[s] EXCEPT !.pc = "lookup_lock", !.driver = "ok",
                                    !.value = RedisGet(th[s].name_str)]]
    /\ UNCHANGED <<config, direntries_by_ino, direntries_by_parent_ino, ino_cache,
                   cache_writer, cache_poisoned, redis>>

\* INO_CACHE.write(), ino_cache.put(ino, name_str), reply.entry(..)
lookup_remember(s) ==
    /\ th[s].pc = "lookup_lock"
    /\ cache_writer = 0
    /\ \/ /\ cache_poisoned
          /\ th' = [th EXCEPT ![s] = Replied(th[s], ReplyError(EAGAIN))]
          /\ UNCHANGED ino_cache
       \/ /\ ~cache_poisoned
          /\ ino_cache' = LruPut(ino_cache, assign(th[s].name_str), th[s].name_str)
          /\ th' = [th EXCEPT ![s] =
                      Replied(th[s], LookupEntryReply(th[s].name_str, th[s].value.v))]
    /\ UNCHANGED <<config, direntries_by_ino, direntries_by_parent_ino,
                   cache_writer, cache_poisoned, redis>>

(***************************************************************************)
(* getattr (fuse.rs 151-175)                                               *)
(***************************************************************************)
\* the 0..=RAW_END arm: self.direntries_by_ino.get(&ino)
getattr_static(ino) ==
    IF ino \in DOMAIN direntries_by_ino
      THEN ReplyAttr(direntries_by_ino[ino].attr)
      ELSE ReplyError(ENOENT)

getattr(s, ino) ==
    /\ th[s].pc = "idle"
    /\ LET call == [Idle EXCEPT !.op = "getattr", !.ino = ino]
       IN
        \/ /\ InRawRange(ino)
           /\ th' = [th EXCEPT ![s] = Replied(call, getattr_static(ino))]
        \/ /\ ~InRawRange(ino) /\ InKvRange(ino)
           \* the callback reaches INO_CACHE.write(), which blocks while
           \* another thread holds the lock
           /\ th' = [th EXCEPT ![s] = [call EXCEPT !.pc = "getattr_lock"]]
        \/ /\ ~InRawRange(ino) /\ ~InKvRange(ino)
           /\ th' = [th EXCEPT ![s] = Replied(call, ReplyError(ENOENT))]
    /\ UNCHANGED <<config, direntries_by_ino, direntries_by_parent_ino, ino_cache,
                   cache_writer, cache_poisoned, redis>>

\* the KV_START..=KV_END arm: INO_CACHE.write() returns, then
\* println!("{:?}", ino_cache.get(&ino)); reply.error(ENOENT)
getattr_resolve(s) ==
    /\ th[s].pc = "getattr_lock"
    /\ cache_writer = 0
    /\ \/ /\ cache_poisoned
          /\ th' = [th EXCEPT ![s] = Replied(th[s], ReplyError(EAGAIN))]
          /\ UNCHANGED ino_cache
       \/ /\ ~cache_poisoned
          /\ ino_cache' = LruGetCache(ino_cache, th[s].ino)
          /\ th' = [th EXCEPT ![s] = Replied(th[s], ReplyError(ENOENT))]
    /\ UNCHANGED <<config, direntries_by_ino, direntries_by_parent_ino,
                   cache_writer, cache_poisoned, redis>>

(***************************************************************************)
(* read (fuse.rs 177-250)                                                  *)
(***************************************************************************)
\* faulty variant: the value without the newline
KvContent_nonewline(value) == value

\* the bytes a KV file holds: format!("{}\n", value)
KvContent(value) == value \o "\n"

StaticContent(ino) ==
    IF ino \in DOMAIN direntries_by_ino THEN direntries_by_ino[ino].content ELSE None

\* the callback is invoked and reaches INO_CACHE.write(), which comes first
\* whatever the inode and blocks while another thread holds the lock
read(s, ino, offset, size) ==
    /\ th[s].pc = "idle"
    /\ th' = [th EXCEPT ![s] =
                [Idle EXCEPT !.pc = "read_lock", !.op = "read", !.ino = ino,
                             !.offset = offset, !.size = size]]
    /\ UNCHANGED <<config, direntries_by_ino, direntries_by_parent_ino, ino_cache,
                   cache_writer, cache_poisoned, redis>>

\* INO_CACHE.write() returns; the guard lives to the end of the callback
read_enter(s) ==
    /\ th[s].pc = "read_lock"
    /\ cache_writer = 0
    /\ LET call == th[s]
           ino == th[s].ino
           offset == th[s].offset
           content == StaticContent(ino)
           name == LruGetValue(ino_cache, ino)
       IN
        \/ /\ cache_poisoned
           /\ th' = [th EXCEPT ![s] = Replied(call, ReplyError(EAGAIN))]
           /\ UNCHANGED <<ino_cache, cache_writer, cache_poisoned>>
        \/ /\ ~cache_poisoned
           /\ InRawRange(ino)
           /\ content.some
           /\ ~SliceFromPanics(content.v, offset)
           /\ th' = [th EXCEPT ![s] = Replied(call, ReplyData(SliceFrom(content.v, offset)))]
           /\ UNCHANGED <<ino_cache, cache_writer, cache_poisoned>>
        \/ /\ ~cache_poisoned
           /\ InRawRange(ino)
           /\ content.some
           /\ SliceFromPanics(content.v, offset)
           \* the panic drops the write guard: the lock is poisoned
           /\ th' = [th EXCEPT ![s] = Panicked(call)]
           /\ cache_poisoned' = TRUE
           /\ UNCHANGED <<ino_cache, cache_writer>>
        \/ /\ ~cache_poisoned
           /\ InRawRange(ino)
           /\ ~content.some
           /\ th' = [th EXCEPT ![s] = Replied(call, ReplyError(ENOENT))]
           /\ UNCHANGED <<ino_cache, cache_writer, cache_poisoned>>
        \/ /\ ~cache_poisoned
           /\ ~InRawRange(ino) /\ InKvRange(ino)
           /\ name.some
           /\ ino_cache' = LruGetCache(ino_cache, ino)
           /\ cache_writer' = s
           /\ th' = [th EXCEPT ![s] = [call EXCEPT !.pc = "read_conn", !.name_str = name.v]]
           /\ UNCHANGED cache_poisoned
        \/ /\ ~cache_poisoned
           /\ ~InRawRange(ino) /\ InKvRange(ino)
           /\ ~name.some
           /\ th' = [th EXCEPT ![s] = Replied(call, ReplyError(ENOENT))]
           /\ UNCHANGED <<ino_cache, cache_writer, cache_poisoned>>
        \/ /\ ~cache_poisoned
           /\ ~InRawRange(ino) /\ ~InKvRange(ino)
           /\ th' = [th EXCEPT ![s] = Replied(call, ReplyError(ENOENT))]
           /\ UNCHANGED <<ino_cache, cache_writer, cache_poisoned>>
    /\ UNCHANGED <<config, direntries_by_ino, direntries_by_parent_ino, redis>>

\* get_conn_eagain!(self.pool, reply), with the write guard held
read_conn(s) ==
    /\ th[s].pc = "read_conn"
    /\ \/ /\ th' = [th EXCEPT ![s] = get_conn_eagain(th[s])]
          /\ cache_writer' = 0
       \/ /\ PoolAvailable
          /\ th' = [th EXCEPT ![s] = [th[s] EXCEPT !.pc = "read_get", !.conn = TRUE]]
          /\ UNCHANGED cache_writer
    /\ UNCHANGED <<config, direntries_by_ino, direntries_by_parent_ino, ino_cache,
                   cache_poisoned, redis>>

\* redis::cmd("GET").arg(name).query(&mut *conn) and the reply
read_query(s) ==
    /\ th[s].pc = "read_get"
    /\ LET got == RedisGet(th[s].name_str)
       IN
        \/ /\ th' = [th EXCEPT ![s] =
                       Replied([th[s] EXCEPT !.driver = "error"], ReplyError(EAGAIN))]
           /\ UNCHANGED cache_poisoned
        \/ /\ ~got.some
           /\ th' = [th EXCEPT ![s] =
                       Replied([th[s] EXCEPT !.driver = "ok"], ReplyError(ENOENT))]
           /\ UNCHANGED cache_poisoned
        \/ /\ got.some
           /\ ~SliceFromPanics(KvContent(got.v), th[s].offset)
           /\ th' = [th EXCEPT ![s] =
                       Replied([th[s] EXCEPT !.driver = "ok", !.value = got],
                               ReplyData(SliceFrom(KvContent(got.v), th[s].offset)))]
           /\ UNCHANGED cache_poisoned
        \/ /\ got.some
           /\ SliceFromPanics(KvContent(got.v), th[s].offset)
           /\ th' = [th EXCEPT ![s] =
                       Panicked([th[s] EXCEPT !.driver = "ok", !.value = got])]
           /\ cache_poisoned' = TRUE
    /\ cache_writer' = 0
    /\ UNCHANGED <<config, direntries_by_ino, direntries_by_parent_ino, ino_cache, redis>>

(***************************************************************************)
(* readdir (fuse.rs 252-292) and get_kv_direntries (fuse.rs 381-402)       *)
(***************************************************************************)
\* vec![(1, FileType::Directory, "..")]
DotDot == <<U(1), Directory, "..">>

\* self.direntries_by_parent_ino[&ino].iter().map(|(_, v)| (v.0, v.1, v.3))
RootListing ==
    LET es == direntries_by_parent_ino[U(1)]
    IN  [j \in 1..Len(es) |-> <<es[j].ino, es[j].kind, es[j].name>>]

\* entries.push((ino, FileType::RegularFile, key_str)) for each key taken
KvListing(keys) == [j \in 1..Len(keys) |-> <<assign(keys[j]), RegularFile, keys[j]>>]

readdir(s, ino, offset, bufcap) ==
    /\ th[s].pc = "idle"
    /\ LET call == [Idle EXCEPT !.op = "readdir", !.ino = ino, !.offset = offset,
                                !.bufcap = bufcap]
       IN
        \/ /\ ino = U(1)
           /\ th' = [th EXCEPT ![s] =
                       Replied(call, ReplyDirectory(
                           Emitted(<<DotDot>> \o RootListing, offset, bufcap)))]
        \/ /\ ino = U(4096)
           \* self.pool.clone().unwrap().get()? fails
           /\ th' = [th EXCEPT ![s] =
                       Replied([call EXCEPT !.driver = "error"], ReplyError(EAGAIN))]
        \/ /\ ino = U(4096)
           /\ PoolAvailable
           /\ th' = [th EXCEPT ![s] = [call EXCEPT !.pc = "readdir_scan", !.conn = TRUE]]
        \/ /\ ino # U(1) /\ ino # U(4096)
           /\ th' = [th EXCEPT ![s] = Replied(call, ReplyError(ENOENT))]
    /\ UNCHANGED <<config, direntries_by_ino, direntries_by_parent_ino, ino_cache,
                   cache_writer, cache_poisoned, redis>>

\* redis::cmd("SCAN").cursor_arg(0).clone().iter(&mut *conn)?
readdir_scan(s) ==
    /\ th[s].pc = "readdir_scan"
    /\ \/ th' = [th EXCEPT ![s] =
                   Replied([th[s] EXCEPT !.driver = "error"], ReplyError(EAGAIN))]
       \/ \E keys \in ScanOrders(PresentKeys) :
             th' = [th EXCEPT ![s] =
                     [th[s] EXCEPT !.pc = "readdir_lock", !.driver = "ok", !.keys = keys]]
    /\ UNCHANGED <<config, direntries_by_ino, direntries_by_parent_ino, ino_cache,
                   cache_writer, cache_poisoned, redis>>

\* INO_CACHE.write()?, the loop over the iterator, then readdir's emission
readdir_collect(s) ==
    /\ th[s].pc = "readdir_lock"
    /\ cache_writer = 0
    /\ \/ /\ cache_poisoned
          /\ th' = [th EXCEPT ![s] = Replied(th[s], ReplyError(EAGAIN))]
          /\ UNCHANGED ino_cache
       \/ /\ ~cache_poisoned
          /\ LET taken == KvTaken(th[s].keys, config.max_results)
             IN  /\ ino_cache' = PutAll(ino_cache, taken)
                 /\ th' = [th EXCEPT ![s] =
                             Replied(th[s], ReplyDirectory(
                                 Emitted(<<DotDot>> \o KvListing(taken),
                                         th[s].offset, th[s].bufcap)))]
    /\ UNCHANGED <<config, direntries_by_ino, direntries_by_parent_ino,
                   cache_writer, cache_poisoned, redis>>

(***************************************************************************)
(* The dispatcher and the environment.                                     *)
(***************************************************************************)
\* a lookup under /kv that has answered EAGAIN because the pool or the GET
\* failed
DriverFailedLookup(slot) ==
    /\ slot.pc = "done" /\ slot.op = "lookup" /\ slot.parent = U(4096)
    /\ slot.driver = "error"
    /\ slot.replies = <<ReplyError(EAGAIN)>>

\* the callback has returned (or its thread has died): the slot takes the
\* next request
Return(s) ==
    /\ th[s].pc \in {"done", "panicked"}
    /\ th' = [th EXCEPT ![s] =
                IF DriverFailedLookup(th[s])
                  THEN [Idle EXCEPT !.failed = Some(th[s].name)]
                  ELSE Idle]
    /\ UNCHANGED <<config, direntries_by_ino, direntries_by_parent_ino, ino_cache,
                   cache_writer, cache_poisoned, redis>>

\* another client of the server sets or deletes a key (between the Redis
\* round trips of the callbacks: a callback makes at most one)
RedisSet(k, v) ==
    /\ \A s \in DOMAIN th : th[s].pc \notin {"done", "panicked"}
    /\ redis[k] # v
    /\ redis' = [redis EXCEPT ![k] = v]
    /\ UNCHANGED <<config, direntries_by_ino, direntries_by_parent_ino, ino_cache,
                   cache_writer, cache_poisoned, th>>

Next ==
    \/ \E s \in DOMAIN th, a \in LookupArgs : lookup(s, a[1], a[2])
    \/ \E s \in DOMAIN th : lookup_query(s)
    \/ \E s \in DOMAIN th : lookup_remember(s)
    \/ \E s \in DOMAIN th, ino \in GetattrInos : getattr(s, ino)
    \/ \E s \in DOMAIN th : getattr_resolve(s)
    \/ \E s \in DOMAIN th, ino \in ReadInos, offset \in ReadOffsets, size \in ReadSizes :
          read(s, ino, offset, size)
    \/ \E s \in DOMAIN th : read_enter(s)
    \/ \E s \in DOMAIN th : read_conn(s)
    \/ \E s \in DOMAIN th : read_query(s)
    \/ \E s \in DOMAIN th, ino \in ReaddirInos, offset \in ReaddirOffsets,
          bufcap \in BufCaps : readdir(s, ino, offset, bufcap)
    \/ \E s \in DOMAIN th : readdir_scan(s)
    \/ \E s \in DOMAIN th : readdir_collect(s)
    \/ \E s \in DOMAIN th : Return(s)
    \/ \E k \in Keys : \E v \in {None, Some(ValueOf(k))} : RedisSet(k, v)

Spec == Init /\ [][Next]_vars

(***************************************************************************)
(* Two callbacks at a time, on the requests that meet at the cache lock:   *)
(* the lookup, getattr, read and readdir of one key, and the read of a     *)
(* help file (within its content and past its end).                        *)
(***************************************************************************)
ConcSlots == {1, 2}

ConcReadInos == {U(4097), assign("a")}
ConcReadOffsets == {0, Len(KV_HELP) + 1}

InitConc ==
    /\ config = [disable_raw |-> FALSE, max_results |-> -1,
                 ino_cache_capacity |-> INO_CACHE_CAPACITY]
    /\ direntries_by_ino = by_ino_of(config.disable_raw)
    /\ direntries_by_parent_ino = by_parent_ino_of(config.disable_raw, "push")
    /\ ino_cache = <<>>
    /\ cache_writer = 0
    /\ cache_poisoned = FALSE
    /\ redis = [k \in Keys |-> None]
    /\ th = [s \in ConcSlots |-> Idle]

\* the steps of the callback in slot s after its invocation, and its return
Step(s) ==
    \/ lookup_query(s)
    \/ lookup_remember(s)
    \/ getattr_resolve(s)
    \/ read_enter(s)
    \/ read_conn(s)
    \/ read_query(s)
    \/ readdir_scan(s)
    \/ readdir_collect(s)
    \/ Return(s)

NextConc ==
    \/ \E s \in DOMAIN th : lookup(s, U(4096), "a")
    \/ \E s \in DOMAIN th : getattr(s, assign("a"))
    \/ \E s \in DOMAIN th, ino \in ConcReadInos, offset \in ConcReadOffsets :
          read(s, ino, offset, 1)
    \/ \E s \in DOMAIN th : readdir(s, U(4096), 0, BigBuf)
    \/ \E s \in DOMAIN th : lookup_query(s)
    \/ \E s \in DOMAIN th : lookup_remember(s)
    \/ \E s \in DOMAIN th : getattr_resolve(s)
    \/ \E s \in DOMAIN th : read_enter(s)
    \/ \E s \in DOMAIN th : read_conn(s)
    \/ \E s \in DOMAIN th : read_query(s)
    \/ \E s \in DOMAIN th : readdir_scan(s)
    \/ \E s \in DOMAIN th : readdir_collect(s)
    \/ \E s \in DOMAIN th : Return(s)
    \/ \E v \in {None, Some(ValueOf("a"))} : RedisSet("a", v)

\* Threads are scheduled fairly and driver calls return: a callback that can
\* take its next step takes it.  The kernel keeps sending requests: a slot
\* that is idle again and again gets the read of /kv:help from offset 0
\* again and again.
FairnessConc ==
    \A s \in ConcSlots :
        /\ WF_vars(Step(s))
        /\ SF_vars(read(s, U(4097), 0, 1))

SpecConc == InitConc /\ [][NextConc]_vars /\ FairnessConc

(***************************************************************************)
(* One callback at a time against a small cache: INO_CACHE created with    *)
(* SmallCapacity entries instead of a million, and a key space of three    *)
(* keys with three different inodes.                                       *)
(***************************************************************************)
InitLru ==
    /\ config = [disable_raw |-> FALSE, max_results |-> -1,
                 ino_cache_capacity |-> SmallCapacity]
    /\ direntries_by_ino = by_ino_of(config.disable_raw)
    /\ direntries_by_parent_ino = by_parent_ino_of(config.disable_raw, "push")
    /\ ino_cache = <<>>
    /\ cache_writer = 0
    /\ cache_poisoned = FALSE
    /\ redis = [k \in LruKeys |-> None]
    /\ th = [s \in Slots |-> Idle]

NextLru ==
    \/ \E s \in DOMAIN th, k \in LruKeys : lookup(s, U(4096), k)
    \/ \E s \in DOMAIN th, k \in LruKeys : getattr(s, assign(k))
    \/ \E s \in DOMAIN th, k \in LruKeys : read(s, assign(k), 0, 4096)
    \/ \E s \in DOMAIN th : readdir(s, U(4096), 0, BigBuf)
    \/ \E s \in DOMAIN th : lookup_query(s)
    \/ \E s \in DOMAIN th : lookup_remember(s)
    \/ \E s \in DOMAIN th : getattr_resolve(s)
    \/ \E s \in DOMAIN th : read_enter(s)
    \/ \E s \in DOMAIN th : read_conn(s)
    \/ \E s \in DOMAIN th : read_query(s)
    \/ \E s \in DOMAIN th : readdir_scan(s)
    \/ \E s \in DOMAIN th : readdir_collect(s)
    \/ \E s \in DOMAIN th : Return(s)
    \/ \E k \in LruKeys : \E v \in {None, Some(ValueOf(k))} : RedisSet(k, v)

SpecLru == InitLru /\ [][NextLru]_vars

(***************************************************************************)
(* Properties.                                                             *)
(***************************************************************************)
\* the callback of slot s has ended, by returning or by unwinding
Finished(s) == th[s].pc \in {"done", "panicked"}
Done(s) == th[s].pc = "done"

\* resolve(ino): what the cache holds for ino, without promoting it
Resolve(ino) == LruGetValue(ino_cache, ino)

\* C1: every invocation of lookup, getattr, read and readdir answers its
\* reply channel exactly once, on every input and in every state of the
\* driver and of the cache lock.
C1_ReplyOnce == \A s \in DOMAIN th : Finished(s) => Len(th[s].replies) = 1

\* C2: every error reply a callback sends carries ENOENT or EAGAIN.
C2_OnlyEnoentOrEagain ==
    \A s \in DOMAIN th : \A i \in 1..Len(th[s].replies) :
        th[s].replies[i].kind = "error" => th[s].replies[i].errno \in {ENOENT, EAGAIN}

\* C2 witness: a callback has answered EAGAIN because the driver failed.
C2_Witness ==
    \E s \in DOMAIN th :
        /\ Done(s)
        /\ th[s].driver = "error"
        /\ th[s].replies = <<ReplyError(EAGAIN)>>

\* the entry lookup(4096, name) is to answer with for a value
KvEntryAttr(name, value) == [ino |-> assign(name), size |-> Len(value) + 1, kind |-> RegularFile]

\* C3: lookup(4096, name) answers the driver's value V with an
\* entry (ino = assign(name), RegularFile, size = len(V)+1), an absent key
\* with ENOENT and a failed driver call with EAGAIN.
C3_LookupKv ==
    \A s \in DOMAIN th :
        (Done(s) /\ th[s].op = "lookup" /\ th[s].parent = U(4096)
                 /\ into_string(th[s].name).some) =>
            /\ th[s].driver \in {"ok", "error"}
            /\ Len(th[s].replies) = 1
            /\ (th[s].driver = "error") => th[s].replies[1] = ReplyError(EAGAIN)
            /\ (th[s].driver = "ok" /\ ~th[s].value.some) =>
                   th[s].replies[1] = ReplyError(ENOENT)
            /\ (th[s].driver = "ok" /\ th[s].value.some) =>
                   /\ th[s].replies[1].kind = "entry"
                   /\ th[s].replies[1].attr = KvEntryAttr(th[s].name, th[s].value.v)

\* the names of a listing
ListedNames(entries) == {entries[i].name : i \in 1..Len(entries)}

\* resolve(ino) in the next state
ResolveNext(ino) == LruGetValue(ino_cache', ino)

\* the keys of the model that hash to ino
KeysOf(ino) == {k \in Keys : assign(k) = ino}

\* slot s answers, in this step, a lookup under /kv with an entry
LookupRepliesEntry(s) ==
    /\ th[s].pc = "lookup_lock"
    /\ th'[s].pc = "done"
    /\ th'[s].replies[1].kind = "entry"

\* slot s answers, in this step, a readdir of /kv with a listing
ReaddirRepliesListing(s) ==
    /\ th[s].pc = "readdir_lock"
    /\ th'[s].pc = "done"
    /\ th'[s].replies[1].kind = "directory"

\* the keys a readdir of /kv in slot s puts into the cache: the keys of its
\* scan that max_results lets through
Remembered(s) ==
    LET taken == KvTaken(th[s].keys, config.max_results)
    IN  {taken[j] : j \in 1..Len(taken)}

\* C4 (as stated): once a lookup under /kv has answered name with an entry,
\* or a readdir of /kv has listed it, resolve(assign(name)) is name, and stays
\* name in every later state (the cache of the model never fills up, so
\* nothing is evicted).
C4_CachePopulationAsStated ==
    [][ /\ \A s \in DOMAIN th :
             LookupRepliesEntry(s) => ResolveNext(assign(th[s].name)) = Some(th[s].name)
        /\ \A s \in DOMAIN th :
             ReaddirRepliesListing(s) =>
                \A i \in 1..Len(th'[s].replies[1].entries) :
                    LET e == th'[s].replies[1].entries[i]
                    IN  e.kind = RegularFile => ResolveNext(e.ino) = Some(e.name)
        /\ \A k \in Keys :
             (Len(ino_cache) < INO_CACHE_CAPACITY /\ Resolve(assign(k)) = Some(k))
                => ResolveNext(assign(k)) = Some(k)
      ]_vars

\* C4 (amended): after such a lookup resolve(assign(name)) is name; after
\* such a readdir it is name or another key of the same scan with the same
\* inode; and it stays name until a lookup or readdir remembers a key with
\* the same inode in its place.
C4_CachePopulation ==
    [][ /\ \A s \in DOMAIN th :
             LookupRepliesEntry(s) => ResolveNext(assign(th[s].name)) = Some(th[s].name)
        /\ \A s \in DOMAIN th :
             ReaddirRepliesListing(s) =>
                \A i \in 1..Len(th'[s].replies[1].entries) :
                    LET e == th'[s].replies[1].entries[i]
                    IN  e.kind = RegularFile =>
                          \E k \in KeysOf(e.ino) :
                              /\ ResolveNext(e.ino) = Some(k)
                              /\ k \in Remembered(s)
        /\ \A k \in Keys :
             (Len(ino_cache) < INO_CACHE_CAPACITY /\ Resolve(assign(k)) = Some(k))
                => \/ ResolveNext(assign(k)) = Some(k)
                   \/ \E m \in KeysOf(assign(k)) \ {k} :
                         /\ ResolveNext(assign(k)) = Some(m)
                         /\ \E s \in DOMAIN th :
                               \/ LookupRepliesEntry(s) /\ th[s].name = m
                               \/ /\ ReaddirRepliesListing(s)
                                  /\ m \in Remembered(s)
      ]_vars

\* C4 witness: a readdir of /kv has listed "a" and "b", which share an
\* inode, and the cache resolves it to one of them.
C4_Witness ==
    \E s \in DOMAIN th :
        /\ Done(s) /\ th[s].op = "readdir" /\ th[s].ino = U(4096)
        /\ Len(th[s].replies[1].entries) = 3
        /\ th[s].replies[1].entries[2].name = "a"
        /\ th[s].replies[1].entries[3].name = "b"
        /\ Resolve(assign("a")) = Some("b")

\* C5: getattr on the inode of a key k that the server holds with value V,
\* and that the cache resolves to k, answers an attr of kind RegularFile
\* and size |V|+1.
C5_GetattrKv ==
    \A s \in DOMAIN th :
        (Done(s) /\ th[s].op = "getattr") =>
            \A k \in KeysOf(th[s].ino) :
                (redis[k].some /\ Resolve(th[s].ino) = Some(k)) =>
                    th[s].replies = <<ReplyAttr(KvEntryAttr(k, redis[k].v))>>

\* C6 (as stated): read on the inode of a key k that the server holds with
\* value V, the inode being in the cache, at an offset 0 <= o <= |V|+1,
\* answers exactly the bytes of V followed by a newline, from o on (the
\* driver calls succeed and the cache lock is sound).
C6_ReadKvAsStated ==
    \A s \in DOMAIN th :
        (Finished(s) /\ th[s].op = "read") =>
            \A k \in KeysOf(th[s].ino) :
                (/\ redis[k].some
                 /\ Resolve(th[s].ino).some
                 /\ ~cache_poisoned
                 /\ th[s].driver # "error"
                 /\ 0 <= th[s].offset /\ th[s].offset <= Len(redis[k].v) + 1) =>
                    th[s].replies =
                        <<ReplyData(SliceFrom(redis[k].v \o "\n", th[s].offset))>>

\* C6 (amended): the same when the cache resolves the inode to k itself (and
\* not to another key with the same inode), the cache lock is not poisoned
\* and the pool connection and the GET succeed; with a poisoned lock or a
\* failed driver call the answer is EAGAIN.
C6_ReadKv ==
    \A s \in DOMAIN th :
        (Done(s) /\ th[s].op = "read") =>
            \A k \in KeysOf(th[s].ino) :
                (/\ redis[k].some
                 /\ Resolve(th[s].ino) = Some(k)
                 /\ 0 <= th[s].offset /\ th[s].offset <= Len(redis[k].v) + 1) =>
                    IF th[s].driver = "error"
                      THEN th[s].replies = <<ReplyError(EAGAIN)>>
                    ELSE IF th[s].driver = "unused"
                      THEN cache_poisoned /\ th[s].replies = <<ReplyError(EAGAIN)>>
                    ELSE th[s].replies =
                           <<ReplyData(SliceFrom(redis[k].v \o "\n", th[s].offset))>>

\* C6 witness: "a" holds "x", and read(assign("a"), offset 1) has answered
\* the newline alone.
C6_Witness ==
    \E s \in DOMAIN th :
        /\ Done(s) /\ th[s].op = "read" /\ th[s].ino = assign("a") /\ th[s].offset = 1
        /\ redis["a"] = Some("x")
        /\ Resolve(assign("a")) = Some("a")
        /\ th[s].replies = <<ReplyData("\n")>>

\* C7: a read whose offset is beyond the logical size of the file (the help
\* text, or the value and its newline) answers with an empty byte slice.
C7_ReadBeyondEnd ==
    \A s \in DOMAIN th :
        (Finished(s) /\ th[s].op = "read" /\ th[s].replies # <<ReplyError(EAGAIN)>>) =>
            /\ (/\ InRawRange(th[s].ino)
                /\ StaticContent(th[s].ino).some
                /\ th[s].offset > Len(StaticContent(th[s].ino).v))
                  => th[s].replies = <<ReplyData("")>>
            /\ (/\ InKvRange(th[s].ino)
                /\ th[s].driver = "ok"
                /\ th[s].value.some
                /\ th[s].offset > Len(th[s].value.v) + 1)
                  => th[s].replies = <<ReplyData("")>>

\* C8: readdir(1) from offset 0 (into a buffer that holds the listing) yields
\* `..` and exactly the six static names, or the four that remain when
\* disable_raw is set, each once.
C8_RootStability ==
    \A s \in DOMAIN th :
        (/\ Done(s) /\ th[s].op = "readdir" /\ th[s].ino = U(1)
         /\ th[s].offset = 0 /\ th[s].bufcap = BigBuf) =>
            LET entries == th[s].replies[1].entries
                names == IF config.disable_raw
                           THEN {"lock", "lock:help", "kv", "kv:help"}
                           ELSE RootNames
            IN  /\ th[s].replies[1].kind = "directory"
                /\ ListedNames(entries) = {".."} \cup names
                /\ Len(entries) = 1 + Cardinality(names)

\* C9: for every entry readdir(1) emits, `..` included, getattr on the
\* entry's inode is answered from the static table with an attr of that
\* inode and kind.
C9_StaticInodeMap ==
    \A s \in DOMAIN th :
        (Done(s) /\ th[s].op = "readdir" /\ th[s].ino = U(1)) =>
            \A i \in 1..Len(th[s].replies[1].entries) :
                LET e == th[s].replies[1].entries[i]
                IN  /\ InRawRange(e.ino)
                    /\ getattr_static(e.ino).kind = "attr"
                    /\ getattr_static(e.ino).attr.ino = e.ino
                    /\ getattr_static(e.ino).attr.kind = e.kind

\* the inode of a static name (fuse.rs, init_static_dirs)
RootIno(name) ==
    CASE name = "raw" -> U(2)
      [] name = "raw:help" -> U(3)
      [] name = "lock" -> U(2048)
      [] name = "lock:help" -> U(2049)
      [] name = "kv" -> U(4096)
      [] name = "kv:help" -> U(4097)

\* C10: with disable_raw, lookup(1, "raw") and lookup(1, "raw:help") answer
\* ENOENT and so do getattr(2) and getattr(3), while lock, lock:help, kv
\* and kv:help resolve to 2048, 2049, 4096, 4097; without it all six names
\* resolve (raw = 2, raw:help = 3).
C10_DisabledRaw ==
    \A s \in DOMAIN th :
        /\ (Done(s) /\ th[s].op = "lookup" /\ th[s].parent = U(1)
                    /\ th[s].name \in RootNames) =>
               IF config.disable_raw /\ th[s].name \in {"raw", "raw:help"}
                 THEN th[s].replies = <<ReplyError(ENOENT)>>
                 ELSE /\ Len(th[s].replies) = 1
                      /\ th[s].replies[1].kind = "entry"
                      /\ th[s].replies[1].attr.ino = RootIno(th[s].name)
        /\ (Done(s) /\ th[s].op = "getattr" /\ th[s].ino \in {U(2), U(3)}) =>
               IF config.disable_raw
                 THEN th[s].replies = <<ReplyError(ENOENT)>>
                 ELSE /\ Len(th[s].replies) = 1
                      /\ th[s].replies[1].kind = "attr"
                      /\ th[s].replies[1].attr.ino = th[s].ino

\* C10 witness: with disable_raw, lookup(1, "raw") has answered ENOENT.
C10_Witness ==
    \E s \in DOMAIN th :
        /\ config.disable_raw
        /\ Done(s) /\ th[s].op = "lookup" /\ th[s].parent = U(1) /\ th[s].name = "raw"
        /\ th[s].replies = <<ReplyError(ENOENT)>>

\* the key entries of a listing
KeyEntries(entries) == {i \in 1..Len(entries) : entries[i].kind = RegularFile}

\* slot s holds the answered readdir(ino) from offset 0 into a buffer that
\* holds the whole listing
ListedAll(s, ino) ==
    /\ Done(s) /\ th[s].op = "readdir" /\ th[s].ino = ino
    /\ th[s].offset = 0 /\ th[s].bufcap = BigBuf
    /\ th[s].replies[1].kind = "directory"

\* C11: with max_results >= 0 a readdir of /kv emits at most max_results key
\* entries and its step remembers at most max_results keys in the cache
\* (none of either with max_results = 0).
C11_MaxResultsBound ==
    [][ \A s \in DOMAIN th :
          (ReaddirRepliesListing(s) /\ config.max_results >= 0) =>
              /\ Cardinality(KeyEntries(th'[s].replies[1].entries)) <= config.max_results
              /\ Len(ino_cache') - Len(ino_cache) <= config.max_results
              /\ Cardinality({assign(k) : k \in {m \in Keys :
                      ResolveNext(assign(m)) # Resolve(assign(m))}}) <= config.max_results
      ]_vars

\* C11 witness: with max_results = 1 a scan found two keys or more and the
\* listing holds `..` and one key.
C11_Witness ==
    \E s \in DOMAIN th :
        /\ config.max_results = 1
        /\ ListedAll(s, U(4096))
        /\ Len(th[s].keys) >= 2
        /\ Cardinality(KeyEntries(th[s].replies[1].entries)) = 1
        /\ Len(ino_cache) = 1

\* C12: with a negative max_results a readdir of /kv emits one entry for
\* every key the scan returned.
C12_NegativeMaxResults ==
    \A s \in DOMAIN th :
        (ListedAll(s, U(4096)) /\ config.max_results < 0) =>
            /\ Cardinality(KeyEntries(th[s].replies[1].entries)) = Len(th[s].keys)
            /\ \A j \in 1..Len(th[s].keys) :
                   th[s].keys[j] \in ListedNames(th[s].replies[1].entries)

\* C13: a readdir from offset 0 emits (1, Directory, "..") first; for /kv it
\* also emits (4096, Directory, "."), for the root it emits no "."; with
\* max_results = 0 the listing of /kv is exactly `..` and `.`.
C13_SyntheticEntries ==
    \A s \in DOMAIN th : \A ino \in {U(1), U(4096)} :
        ListedAll(s, ino) =>
            LET entries == th[s].replies[1].entries
                dots == {i \in 1..Len(entries) : entries[i].name = "."}
            IN  /\ Len(entries) >= 1
                /\ entries[1].ino = U(1)
                /\ entries[1].kind = Directory
                /\ entries[1].name = ".."
                /\ (ino = U(1)) => dots = {}
                /\ (ino = U(4096)) =>
                       \E i \in dots : entries[i].ino = ino /\ entries[i].kind = Directory
                /\ (ino = U(4096) /\ config.max_results = 0) =>
                       ListedNames(entries) = {"..", "."} /\ Len(entries) = 2

\* (H(k) mod 10^14) + 400_000_000_000_000 on the limbs of H(k): the two low
\* limbs of the hash under the high limb 4
ExpectedIno(k) == <<4, seahash_hash(k)[2], seahash_hash(k)[3]>>

\* C17: the inode that lookup(4096, k) and readdir(4096) report for a key k
\* is (H(k) mod 10^14) + 400_000_000_000_000, within [KV_START, KV_END), on
\* every call and in both callbacks.
C17_InodeDeterminism ==
    \A s \in DOMAIN th :
        /\ (/\ Done(s) /\ th[s].op = "lookup" /\ th[s].parent = U(4096)
            /\ th[s].replies[1].kind = "entry") =>
               LET ino == th[s].replies[1].attr.ino
               IN  /\ ino = ExpectedIno(th[s].name)
                   /\ u64_le(KV_START, ino) /\ u64_lt(ino, KV_END)
        /\ (/\ Done(s) /\ th[s].op = "readdir" /\ th[s].ino = U(4096)
            /\ th[s].replies[1].kind = "directory") =>
               \A i \in KeyEntries(th[s].replies[1].entries) :
                   LET e == th[s].replies[1].entries[i]
                   IN  /\ e.ino = ExpectedIno(e.name)
                       /\ u64_le(KV_START, e.ino) /\ u64_lt(e.ino, KV_END)

\* C17 witness: a readdir of /kv has listed the key "a" under the inode
\* 414_142_135_623_730, and the cache resolves that inode to "a".
C17_Witness ==
    \E s \in DOMAIN th :
        /\ Done(s) /\ th[s].op = "readdir" /\ th[s].ino = U(4096)
        /\ th[s].replies[1].kind = "directory"
        /\ \E i \in KeyEntries(th[s].replies[1].entries) :
              /\ th[s].replies[1].entries[i].name = "a"
              /\ th[s].replies[1].entries[i].ino = <<4, 1414213, 5623730>>
        /\ Resolve(<<4, 1414213, 5623730>>) = Some("a")

\* C19: read(assign(k), offset 0) of a key k the server holds answers the
\* value of a key with that inode followed by a newline, whether or not the
\* cache holds the inode (the driver calls succeed and the lock is sound).
C19_CacheIsHint ==
    \A s \in DOMAIN th :
        (/\ Done(s) /\ th[s].op = "read" /\ th[s].offset = 0
         /\ \E k \in KeysOf(th[s].ino) : redis[k].some
         /\ th[s].driver # "error"
         /\ ~cache_poisoned) =>
            \E k \in KeysOf(th[s].ino) :
                /\ redis[k].some
                /\ th[s].replies = <<ReplyData(redis[k].v \o "\n")>>

\* the inodes of the static help files
HelpInos == {U(3), U(2049), U(4097)}

\* C20: read on a static help file answers its content and read on another
\* inode of the RAW range answers ENOENT in every state of the cache lock:
\* it never answers EAGAIN and never waits for the lock.
C20_StaticReadNoLock ==
    \A s \in DOMAIN th :
        (th[s].op = "read" /\ InRawRange(th[s].ino)) =>
            /\ (th[s].pc = "read_lock") => cache_writer = 0
            /\ Done(s) =>
                  IF th[s].ino \in HelpInos /\ th[s].ino \in DOMAIN direntries_by_ino
                    THEN /\ Len(th[s].replies) = 1
                         /\ th[s].replies[1].kind = "data"
                    ELSE th[s].replies = <<ReplyError(ENOENT)>>

\* slot s holds the answered retry of a /kv lookup that had failed on the
\* driver, and this time the driver returned a value
RetryFoundValue(s) ==
    /\ Done(s) /\ th[s].op = "lookup" /\ th[s].retry
    /\ th[s].driver = "ok" /\ th[s].value.some

\* every such retry has answered the entry of size len(V)+1
RetrySucceeds ==
    \A s \in DOMAIN th :
        RetryFoundValue(s) =>
            th[s].replies =
                <<ReplyEntry(KvEntryAttr(th[s].name, th[s].value.v), Len(th[s].value.v) + 1)>>

\* C18: the step in which a lookup(4096, name) answers EAGAIN after a failed
\* driver call leaves the cache and the static tables unchanged, and the
\* lookup of the same name issued next, for which the driver returns a
\* value V, answers the entry of size len(V)+1.
C18_TransientFailureRecovers ==
    [][ /\ \A s \in DOMAIN th :
             (~Done(s) /\ DriverFailedLookup(th'[s])) =>
                 UNCHANGED <<ino_cache, direntries_by_ino, direntries_by_parent_ino>>
        /\ RetrySucceeds'
      ]_vars

\* the callback in slot s needs the cache lock
NeedsCache(s) ==
    \/ th[s].op = "read"
    \/ th[s].op = "getattr" /\ ~InRawRange(th[s].ino) /\ InKvRange(th[s].ino)
    \/ th[s].op = "lookup" /\ th[s].parent = U(4096)
    \/ th[s].op = "readdir" /\ th[s].ino = U(4096)

\* the callback in slot s has answered EAGAIN because INO_CACHE.write()
\* returned an error (and not because the driver failed)
LockRefused(s) ==
    /\ Done(s) /\ NeedsCache(s)
    /\ th[s].replies = <<ReplyError(EAGAIN)>>
    /\ th[s].driver # "error"

\* the callback in slot s went through the cache lock and has answered with
\* data, an entry or a listing
CacheRequestSucceeded(s) ==
    /\ Done(s) /\ NeedsCache(s)
    /\ th[s].replies[1].kind \in {"data", "entry", "directory"}

\* C14: whenever a callback has answered EAGAIN because the cache lock
\* could not be acquired, a later callback that needs the lock succeeds
\* (requests keep coming, among them reads of /kv:help from offset 0, which
\* need nothing but the lock).
C14_LockFailureNotPermanent ==
    (\E s \in DOMAIN th : LockRefused(s)) ~> (\E s \in DOMAIN th : CacheRequestSucceeded(s))

\* the pcs at which a callback is about to take the cache lock, and the
\* step that takes it
LockPcs == {"lookup_lock", "getattr_lock", "read_lock", "readdir_lock"}

LockStep(s) ==
    \/ lookup_remember(s)
    \/ getattr_resolve(s)
    \/ read_enter(s)
    \/ readdir_collect(s)

\* C15: a callback that only resolves an inode (getattr or read on a KV
\* inode) enters the cache while another callback that only resolves is
\* inside it.
C15_ReaderConcurrency ==
    \A a \in DOMAIN th : \A b \in DOMAIN th :
        (/\ a # b
         /\ cache_writer = a
         /\ th[a].op \in {"read", "getattr"} /\ InKvRange(th[a].ino)
         /\ th[b].pc \in {"read_lock", "getattr_lock"} /\ InKvRange(th[b].ino)) =>
            ENABLED (read_enter(b) \/ getattr_resolve(b))

\* C16: a callback that is at the cache lock while another callback holds
\* it is not blocked for as long as the holder keeps the lock: it can go on
\* (to its EAGAIN) with the lock still held.
C16_BoundedWait ==
    \A b \in DOMAIN th :
        (th[b].pc \in LockPcs /\ cache_writer \notin {0, b}) => ENABLED LockStep(b)

\* the content a read that answered with data took its bytes from: the help
\* text of a static file, or the value fetched for a KV inode and its "\n"
ReadContent(s) ==
    IF InRawRange(th[s].ino) THEN StaticContent(th[s].ino).v
    ELSE KvContent(th[s].value.v)

\* C21: a read that replies with data replies with at most `size` bytes,
\* the first min(size, remaining) bytes of the content from `offset`.
C21_ReadClipped ==
    \A s \in DOMAIN th :
        (/\ Done(s) /\ th[s].op = "read"
         /\ th[s].replies[1].kind = "data") =>
            LET remaining == Len(ReadContent(s)) - th[s].offset
                n == Min(th[s].size, remaining)
            IN  /\ Len(th[s].replies[1].data) <= th[s].size
                /\ th[s].replies[1].data =
                       SubSeq(ReadContent(s), th[s].offset + 1, th[s].offset + n)

\* the entries vector the readdir in slot s built before emitting: `..`,
\* then the static children of the root or the keys taken from the scan
Listing(s) ==
    IF th[s].ino = U(1) THEN <<DotDot>> \o RootListing
    ELSE <<DotDot>> \o KvListing(KvTaken(th[s].keys, config.max_results))

\* the readdir calls that list a directory in full when each is resumed at
\* the last next-offset the one before returned, starting at `offset`, into
\* buffers of `bufcap` entries: their emissions one after the other (`calls`
\* bounds the number of calls)
RECURSIVE Resumed(_, _, _, _)
Resumed(entries, offset, bufcap, calls) ==
    LET page == Emitted(entries, offset, bufcap)
    IN  IF calls = 0 \/ page = <<>> THEN <<>>
        ELSE page \o Resumed(entries, page[Len(page)].offset, bufcap, calls - 1)

\* C22: a readdir that replies with a listing emits the entries from index
\* `offset` onward, the i-th entry (0-based) with next-offset i + 1, and
\* stops with the success reply when the buffer is full; and calls over the
\* same entries, each resumed at the last next-offset returned, emit every
\* entry once, in order, none skipped and none repeated.
C22_ReaddirPagination ==
    \A s \in DOMAIN th :
        (/\ Done(s) /\ th[s].op = "readdir"
         /\ th[s].replies[1].kind = "directory"
         /\ th[s].offset >= 0) =>
            LET all == Listing(s)
                es  == th[s].replies[1].entries
                left == IF th[s].offset > Len(all) THEN 0 ELSE Len(all) - th[s].offset
            IN  /\ Len(th[s].replies) = 1
                /\ Len(es) = Min(th[s].bufcap, left)
                /\ \A j \in 1..Len(es) :
                      /\ es[j].ino = all[th[s].offset + j][1]
                      /\ es[j].kind = all[th[s].offset + j][2]
                      /\ es[j].name = all[th[s].offset + j][3]
                      /\ es[j].offset = th[s].offset + j
                /\ \A room \in BufCaps :
                      LET seen == Resumed(all, 0, room, Len(all) + 1)
                      IN  /\ Len(seen) = Len(all)
                          /\ \A j \in 1..Len(all) :
                                seen[j].name = all[j][3] /\ seen[j].ino = all[j][1]

\* a readdir of the root resumed at offset 1 into a buffer that holds one
\* entry has emitted one entry, with next-offset 2, and left others for the
\* next call
C22_Witness ==
    \E s \in DOMAIN th :
        /\ Done(s) /\ th[s].op = "readdir" /\ th[s].ino = U(1)
        /\ th[s].offset = 1 /\ th[s].bufcap = 1
        /\ th[s].replies[1].kind = "directory"
        /\ Len(th[s].replies[1].entries) = 1
        /\ th[s].replies[1].entries[1].offset = 2
        /\ Len(Listing(s)) > 2

\* the step ends a lookup of the empty name in slot s, with the driver and
\* the cache lock in order
EmptyLookupEnds(s) ==
    /\ th[s].pc \notin {"done", "panicked"}
    /\ th'[s].pc = "done"
    /\ th'[s].op = "lookup" /\ th'[s].name = ""
    /\ th'[s].driver # "error"
    /\ ~cache_poisoned

\* C23: a lookup with an empty name replies ENOENT under every parent,
\* whatever the driver holds, and inserts nothing into the resolver cache.
C23_EmptyNameEnoent ==
    [][\A s \in DOMAIN th :
          EmptyLookupEnds(s) =>
              /\ th'[s].replies = <<ReplyError(ENOENT)>>
              /\ ino_cache' = ino_cache]_vars

\* the inodes the cache holds, most recently used first
InoSeq(c) == [j \in 1..Len(c) |-> c[j].ino]

\* the inodes the step of slot s uses in the cache (put, or get with a
\* hit), the last one used first
UsedBy(s) ==
    IF th[s].pc = "lookup_lock" /\ ~cache_poisoned
      THEN <<assign(th[s].name_str)>>
    ELSE IF th[s].pc = "read_lock" /\ th'[s].pc = "read_conn"
      THEN <<th[s].ino>>
    ELSE IF /\ th[s].pc = "getattr_lock" /\ ~cache_poisoned
            /\ \E j \in 1..Len(ino_cache) : ino_cache[j].ino = th[s].ino
      THEN <<th[s].ino>>
    ELSE IF th[s].pc = "readdir_lock" /\ ~cache_poisoned
      THEN LET taken == KvTaken(th[s].keys, config.max_results)
           IN  Reverse([j \in 1..Len(taken) |-> assign(taken[j])])
    ELSE <<>>

\* what a cache of `capacity` entries holds after the uses `used` (last one
\* first, all different): the used inodes, then the others as they were,
\* cut at the capacity from the least recently used end
AfterUses(c, used, capacity) ==
    LET others == SelectSeq(InoSeq(c), LAMBDA i : \A j \in 1..Len(used) : used[j] # i)
        order  == used \o others
    IN  SubSeq(order, 1, Min(Len(order), capacity))

\* C24: the resolver cache never holds more than its capacity; every step
\* of a callback leaves in it the inodes it used, then the others in their
\* order of use, dropping from the least recently used end only what
\* exceeds the capacity: an insertion into a full cache evicts exactly the
\* least recently used entry, and no entry leaves the cache any other way.
C24_BoundedLru ==
    /\ [](Len(ino_cache) <= INO_CACHE_CAPACITY /\ Len(ino_cache) <= cap)
    /\ [][\A s \in DOMAIN th :
             /\ th'[s] # th[s] =>
                   InoSeq(ino_cache') = AfterUses(ino_cache, UsedBy(s), cap)
             /\ \A j \in 1..Len(ino_cache') :
                   assign(ino_cache'[j].name) = ino_cache'[j].ino]_vars

\* a readdir of /kv has listed three keys and put them into the cache of
\* two entries: the cache is full and holds the two keys listed last, the
\* last one first, and the key listed first is no longer resolvable
C24_Witness ==
    \E s \in DOMAIN th :
        /\ Done(s) /\ th[s].op = "readdir"
        /\ th[s].replies[1].kind = "directory"
        /\ Len(th[s].replies[1].entries) = 4
        /\ cap = SmallCapacity
        /\ Len(ino_cache) = cap
        /\ ino_cache[1].name = th[s].replies[1].entries[4].name
        /\ ino_cache[2].name = th[s].replies[1].entries[3].name
        /\ ~Resolve(th[s].replies[1].entries[2].ino).some

\* the callback in slot a holds the cache write lock and waits for a pool
\* connection: a read on a KV inode at get_conn_eagain! with the pool empty
HoldsLockWaitsPool(a) ==
    /\ cache_writer = a
    /\ th[a].op = "read" /\ th[a].pc = "read_conn"
    /\ ~PoolAvailable

\* the callback in slot b holds a pool connection and waits for the cache
\* lock: a readdir of /kv at INO_CACHE.write() while another holds the lock
HoldsPoolWaitsLock(b) ==
    /\ th[b].conn
    /\ th[b].op = "readdir" /\ th[b].pc = "readdir_lock"
    /\ cache_writer \notin {0, b}

\* C25: in no reachable state does one callback hold the cache write lock
\* while waiting for a pool connection and another hold a pool connection
\* while waiting for the cache lock.
C25_NoCircularWait ==
    \A a \in DOMAIN th : \A b \in DOMAIN th :
        ~(a # b /\ HoldsLockWaitsPool(a) /\ HoldsPoolWaitsLock(b))

====
